---- MODULE Spec2Model ----
(***************************************************************************)
(* Verification model of the three analysis scripts of                     *)
(* visualization-atmospheric:                                              *)
(*   calc_WRF_ThetaE_Analysis.py          (Spec, the iterative run)        *)
(*   ana_duration_hours.py                (SpecDuration)                   *)
(*   frontogenesis_tendency_comparison.py (SpecFronto)                     *)
(* A 2-D (ny, nx) slice is abstracted to its validity class: "val" (finite *)
(* numbers) or "nan" (not-a-number, which is also the fill value of the    *)
(* pre-allocated output arrays).                                           *)
(***************************************************************************)
EXTENDS Integers, Sequences, FiniteSets, TLC

(* ---------------- bounds of the explored inputs ---------------- *)
MaxReq == 3
MaxMembers == 2
MaxTimes == 2
MaxRows == 3

(* ---------------- calc_WRF_ThetaE_Analysis.py: inputs ---------------- *)
\* the default of the -L option (line 221)
DefaultLevels == <<875, 850, 825>>

\* pressure levels that can occur
Levels == {DefaultLevels[i] : i \in DOMAIN DefaultLevels}

\* what the input holds for one pressure level:
\*   "absent"  not in eth.nc's interp_level
\*   "ok"      in eth.nc and in ua,va.nc, finite data
\*   "nan"     in both files, the data of the level is NaN (below ground)
\*   "nowind"  in eth.nc but not in ua,va.nc's interp_level
LevelStatus == {"absent", "ok", "nan", "nowind"}

VarNames == {"eth", "dtedx", "dtedy", "absthe", "divg", "vort"}

EthPath == "./extract_wrf_to_nc/eth.nc"
UvPath == "./extract_wrf_to_nc/ua,va.nc"
OUTPUT_DIR == "./output/theta_e/WRF"
OUTPUT_FILE == "./output/theta_e/WRF/the_gra.nc"
Paths == {EthPath, UvPath, OUTPUT_DIR, OUTPUT_FILE}

\* what a path of the file system holds
Absent == [kind |-> "absent"]
InputFile == [kind |-> "input"]
Directory == [kind |-> "dir"]
RegularFile == [kind |-> "file"]  \* a regular file where a directory is meant
Blocked == [kind |-> "blocked"]   \* absent, under a parent that is a file
OldFile == [kind |-> "old"]
PartialFile == [kind |-> "partial"]
NetcdfFile(ds) == [kind |-> "netcdf", ds |-> ds]

VARIABLES
    pc,                 \* position of the script
    exc,                \* the exception that ended the run, or "none"
    argv,               \* input: the command line
    argLevel,           \* args.level, the requested levels
    LEVELS,             \* the LEVELS parameter / local of the function
    levelStatus,        \* input: Levels -> LevelStatus
    nMembers, nTimes,   \* input: len(ds_eth['member']), len(ds_eth['Time'])
    windLacks,          \* input: "member" / "time" when ua,va.nc lacks the
                        \* last member / time of eth.nc, else "nothing"
    fs,                 \* file system: Paths -> content
    fs0,                \* the file system when the script was started
    dsOpen,             \* the datasets currently open
    output_arrays,      \* name -> [shape, data], or <<>> before allocation
    total_iterations, current_iteration,
    m_idx, t_idx, l_idx,    \* the combination the loop is at (0-based)
    attempts,           \* how often each (m_idx, t_idx, l_idx) entered the try
    written_from,       \* per slot: the <<member, time, level>> whose slices
                        \* lines 116-118 read for the values stored in it
    log,                \* what the run printed, in order
    dpc, dexc, df, duration_counts, table, boxplot, \* ana_duration_hours.py
    fpc, fexc, timeCoord, gradient_change, frontogenesis_target, figure,
    image                                       \* frontogenesis script

varsThetaE == <<pc, exc, argv, argLevel, LEVELS, levelStatus, nMembers, nTimes,
                windLacks, fs, fs0, dsOpen, output_arrays,
                total_iterations, current_iteration, m_idx, t_idx, l_idx,
                attempts, written_from, log>>
varsDuration == <<dpc, dexc, df, duration_counts, table, boxplot>>
varsFronto == <<fpc, fexc, timeCoord, gradient_change, frontogenesis_target,
                figure, image>>
vars == <<varsThetaE, varsDuration, varsFronto>>

(* ---------------- helpers ---------------- *)
Range(s) == {s[i] : i \in DOMAIN s}

\* variant: the levels are validated against both input files
available_levels_both == {lv \in Levels : levelStatus[lv] \in {"ok", "nan"}}

\* the interp_level coordinate of eth.nc (line 57)
available_levels == {lv \in Levels : levelStatus[lv] # "absent"}

\* the coordinates of ua,va.nc
wind_levels == {lv \in Levels : levelStatus[lv] \in {"ok", "nan"}}
members == [i \in 1..nMembers |-> i]
times == [i \in 1..nTimes |-> i]
wind_members ==
    IF windLacks = "member" THEN 1..(nMembers - 1) ELSE 1..nMembers
wind_times == IF windLacks = "time" THEN 1..(nTimes - 1) ELSE 1..nTimes

\* variant: the warning list is not filtered
missing_levels_all(L) == L

\* [level for level in LEVELS if level not in available_levels] (line 63)
missing_levels(L) == SelectSeq(L, LAMBDA lv : lv \notin available_levels)

\* [level for level in LEVELS if level in available_levels] (line 66)
kept_levels(L) == SelectSeq(L, LAMBDA lv : lv \in available_levels)

\* variant: the filtered list is computed but LEVELS is not reassigned
validated_levels_not_reassigned(L) == L

\* lines 64-66: LEVELS is replaced only when something is missing
validated_levels(L) ==
    IF missing_levels(L) # <<>> THEN kept_levels(L) ELSE L

Slots(nm, nt, nl) == (0..(nm - 1)) \X (0..(nt - 1)) \X (0..(nl - 1))

\* variant: the arrays are allocated with np.zeros
np_zeros(nm, nt, nl) ==
    [shape |-> <<nm, nt, nl>>, data |-> [s \in Slots(nm, nt, nl) |-> "val"]]

\* np.full((n_members, n_times, n_levels, ny, nx), np.nan) (lines 88-95)
np_full_nan(nm, nt, nl) ==
    [shape |-> <<nm, nt, nl>>, data |-> [s \in Slots(nm, nt, nl) |-> "nan"]]

(* ---------------- the per-slice computation (lines 114-134) ---------------- *)
\* ds_eth.sel(member=, Time=, interp_level=)['eth'].values (line 116):
\* the validity class of the slice, or "KeyError"
eth_sel(member, time, level) ==
    IF level \notin available_levels \/ member \notin Range(members)
       \/ time \notin Range(times)
    THEN "KeyError"
    ELSE IF levelStatus[level] = "nan" THEN "nan" ELSE "val"

\* ds_wind.sel(member=, Time=, interp_level=)['ua' / 'va'].values (117-118)
wind_sel(member, time, level) ==
    IF level \notin wind_levels \/ member \notin wind_members
       \/ time \notin wind_times
    THEN "KeyError"
    ELSE IF levelStatus[level] = "nan" THEN "nan" ELSE "val"

\* a finite-difference operator of one field: NaN in, NaN out (line 121)
geospatial_gradient(k) == k

\* an operator of two fields (lines 122, 125, 126)
combine(k1, k2) == IF k1 = "nan" \/ k2 = "nan" THEN "nan" ELSE "val"

\* the body of the try: raised when a statement raises, else the six
\* fields that lines 129-134 store
slice_fields(member, time, level) ==
    LET eth_slice == eth_sel(member, time, level)
        u_slice == wind_sel(member, time, level)
        v_slice == wind_sel(member, time, level)
    IN  IF eth_slice = "KeyError" \/ u_slice = "KeyError" \/ v_slice = "KeyError"
        THEN [raised |-> TRUE]
        ELSE [raised |-> FALSE,
              eth |-> eth_slice,
              dtedx |-> geospatial_gradient(eth_slice),
              dtedy |-> geospatial_gradient(eth_slice),
              absthe |-> combine(geospatial_gradient(eth_slice),
                                 geospatial_gradient(eth_slice)),
              divg |-> combine(u_slice, v_slice),
              vort |-> combine(u_slice, v_slice)]

\* variant: the store of the last field is left out
store_without_vort(arrays, slot, fields) ==
    [v \in VarNames |->
        IF v = "vort" THEN arrays[v]
        ELSE [arrays[v] EXCEPT !.data = [@ EXCEPT ![slot] = fields[v]]]]

\* output_arrays[name][m_idx, t_idx, l_idx] = field, for the six names
store(arrays, slot, fields) ==
    [v \in VarNames |->
        [arrays[v] EXCEPT !.data = [@ EXCEPT ![slot] = fields[v]]]]

\* len(data[~np.isnan(data)]) in units of one slice (line 148)
valid_count(arr) == Cardinality({s \in DOMAIN arr.data : arr.data[s] # "nan"})

\* the order in which dict iteration visits the six arrays (lines 88-95)
VarOrder == <<"eth", "dtedx", "dtedy", "absthe", "divg", "vort">>

\* variant: the range is printed without the test for valid data
stat_lines_unguarded(arrays) ==
    [i \in 1..Len(VarOrder) |->
        <<"valid", VarOrder[i], valid_count(arrays[VarOrder[i]])>>]

\* the statistics lines printed for the six arrays (lines 147-152)
stat_lines(arrays) ==
    [i \in 1..Len(VarOrder) |->
        IF valid_count(arrays[VarOrder[i]]) > 0
        THEN <<"valid", VarOrder[i], valid_count(arrays[VarOrder[i]])>>
        ELSE <<"novalid", VarOrder[i]>>]

(* ---------------- calc_WRF_ThetaE_Analysis.py: the run ---------------- *)
ReqSeqs == UNION {[1..n -> Levels] : n \in 1..MaxReq}

\* command lines: no option, -L with integers, -h, or one argparse rejects
\* (-L without a value or with a non-integer, an unknown option)
Argv ==
    {[kind |-> k, level |-> <<>>] : k \in {"default", "help", "error"}}
        \cup {[kind |-> "levels", level |-> r] : r \in ReqSeqs}

\* parser.parse_args() (lines 220-222): args.level, or the exit of argparse
parse_args(a) ==
    IF a.kind \in {"help", "error"} THEN [exited |-> TRUE, level |-> <<>>]
    ELSE IF a.kind = "default" THEN [exited |-> FALSE, level |-> DefaultLevels]
    ELSE [exited |-> FALSE, level |-> a.level]

\* the error os.makedirs(path, exist_ok=True) raises, or "ok"
makedirs_error(f, path) ==
    IF f[path] = RegularFile THEN "FileExistsError"
    ELSE IF f[path] = Blocked THEN "NotADirectoryError"
    ELSE "ok"

\* xr.open_dataset(path): the error it raises, or "ok"
open_error(f, path) ==
    IF f[path] = Absent THEN "FileNotFoundError" ELSE "ok"

\* the run gets as far as reading the content of the two input files
ReadsInputs(a, f) ==
    /\ ~parse_args(a).exited
    /\ makedirs_error(f, OUTPUT_DIR) = "ok"
    /\ open_error(f, EthPath) = "ok"
    /\ open_error(f, UvPath) = "ok"

InitThetaE ==
    /\ pc = "parse"
    /\ exc = "none"
    /\ argv \in Argv
    /\ argLevel = <<>>
    /\ LEVELS = <<>>
    /\ \E e, u \in {Absent, InputFile} :
       \E out \in {<<Absent, Absent>>, <<Directory, OldFile>>,
                   <<RegularFile, Absent>>, <<Blocked, Absent>>} :
          fs = [p \in Paths |->
                  IF p = EthPath THEN e
                  ELSE IF p = UvPath THEN u
                  ELSE IF p = OUTPUT_DIR THEN out[1] ELSE out[2]]
    /\ IF ~ReadsInputs(argv, fs)
       THEN \* the content is never read: one content stands for all
            /\ levelStatus = [lv \in Levels |-> "absent"]
            /\ nMembers = 0 /\ nTimes = 0
            /\ windLacks = "nothing"
       ELSE /\ levelStatus \in [Levels -> LevelStatus]
            \* the data of a level is read only when the level is requested
            /\ \A lv \in Levels \ Range(parse_args(argv).level) :
                  levelStatus[lv] \in {"absent", "ok"}
            /\ nMembers \in 0..MaxMembers
            /\ nTimes \in 0..MaxTimes
            /\ windLacks \in {"nothing", "member", "time"}
            /\ windLacks = "member" => nMembers > 0
            /\ windLacks = "time" => nTimes > 0
    /\ fs0 = fs
    /\ dsOpen = {}
    /\ output_arrays = <<>>
    /\ total_iterations = 0
    /\ current_iteration = 0
    /\ m_idx = 0 /\ t_idx = 0 /\ l_idx = 0
    /\ attempts = <<>>
    /\ written_from = <<>>
    /\ log = <<>>

InputsUnchanged ==
    UNCHANGED <<argv, levelStatus, nMembers, nTimes, windLacks, fs0>>

\* variant: the directory is not created
makedirs_skipped(f, path) == f

\* os.makedirs(path, exist_ok=True) where it raises nothing: the directory
\* is there afterwards
makedirs(f, path) == [f EXCEPT ![path] = Directory]

\* variant: opening is lazy and never raises
open_dataset_lazy(f, path) == "ok"

\* xr.open_dataset(path): the error it raises, or "ok"
open_dataset(f, path) == open_error(f, path)

\* lines 219-224: the command line is parsed; -h and a rejected command
\* line end the script in argparse
ParseArgs ==
    /\ pc = "parse"
    /\ IF parse_args(argv).exited
       THEN /\ exc' = "SystemExit"
            /\ pc' = "raised"
            /\ UNCHANGED argLevel
       ELSE /\ argLevel' = parse_args(argv).level
            /\ pc' = "main"
            /\ UNCHANGED exc
    /\ InputsUnchanged
    /\ UNCHANGED <<varsDuration, varsFronto>>
    /\ UNCHANGED <<LEVELS, fs, dsOpen, output_arrays, total_iterations,
                   current_iteration, m_idx, t_idx, l_idx, attempts,
                   written_from, log>>

\* lines 225-230: os.makedirs(OUTPUT_DIR, exist_ok=True), then the call that
\* binds LEVELS to args.level
MakeDirs ==
    /\ pc = "main"
    /\ IF makedirs_error(fs, OUTPUT_DIR) # "ok"
       THEN /\ exc' = makedirs_error(fs, OUTPUT_DIR)
            /\ pc' = "raised"
            /\ UNCHANGED <<fs, LEVELS>>
       ELSE /\ fs' = makedirs(fs, OUTPUT_DIR)
            /\ LEVELS' = argLevel
            /\ pc' = "open"
            /\ UNCHANGED exc
    /\ InputsUnchanged
    /\ UNCHANGED <<varsDuration, varsFronto>>
    /\ UNCHANGED <<argLevel, dsOpen, output_arrays, total_iterations,
                   current_iteration, m_idx, t_idx, l_idx, attempts,
                   written_from, log>>

\* lines 47-57: xr.open_dataset of eth.nc, then of ua,va.nc; a missing
\* file raises out of the function and out of the script
OpenDatasets ==
    /\ pc = "open"
    /\ IF open_dataset(fs, EthPath) # "ok"
       THEN /\ exc' = open_dataset(fs, EthPath)
            /\ pc' = "raised"
            /\ UNCHANGED dsOpen
       ELSE IF open_dataset(fs, UvPath) # "ok"
       THEN /\ exc' = open_dataset(fs, UvPath)
            /\ pc' = "raised"
            /\ dsOpen' = {"eth"}
       ELSE /\ dsOpen' = {"eth", "uv"}
            /\ pc' = "validate"
            /\ UNCHANGED exc
    /\ InputsUnchanged
    /\ UNCHANGED <<varsDuration, varsFronto>>
    /\ UNCHANGED <<argLevel, LEVELS, fs, output_arrays, total_iterations,
                   current_iteration, m_idx, t_idx, l_idx, attempts,
                   written_from, log>>

\* lines 62-67: drop the requested levels the input does not have
ValidateLevels ==
    /\ pc = "validate"
    /\ LEVELS' = validated_levels(LEVELS)
    /\ log' = IF missing_levels(LEVELS) # <<>>
              THEN Append(log, <<"warning", missing_levels(LEVELS)>>)
              ELSE log
    /\ pc' = "allocate"
    /\ InputsUnchanged
    /\ UNCHANGED argLevel
    /\ UNCHANGED <<varsDuration, varsFronto>>
    /\ UNCHANGED <<exc, fs, dsOpen, output_arrays, total_iterations,
                   current_iteration, m_idx, t_idx, l_idx, attempts,
                   written_from>>

\* lines 69-101: the summary (times[0] needs a time step), the six arrays
\* and the iteration counters; with no combination the loops run empty
Allocate ==
    /\ pc = "allocate"
    /\ IF nTimes = 0
       THEN /\ exc' = "IndexError"
            /\ pc' = "raised"
            /\ UNCHANGED <<output_arrays, total_iterations, attempts,
                           written_from>>
       ELSE /\ output_arrays' =
                [v \in VarNames |-> np_full_nan(nMembers, nTimes, Len(LEVELS))]
            /\ total_iterations' = nMembers * nTimes * Len(LEVELS)
            /\ attempts' = [s \in Slots(nMembers, nTimes, Len(LEVELS)) |-> 0]
            /\ written_from' =
                [s \in Slots(nMembers, nTimes, Len(LEVELS)) |-> <<>>]
            /\ pc' = IF nMembers * nTimes * Len(LEVELS) = 0
                     THEN "emptyloops" ELSE "loop"
            /\ UNCHANGED exc
    /\ current_iteration' = 0
    /\ m_idx' = 0 /\ t_idx' = 0 /\ l_idx' = 0
    /\ InputsUnchanged
    /\ UNCHANGED argLevel
    /\ UNCHANGED <<varsDuration, varsFronto>>
    /\ UNCHANGED <<LEVELS, fs, dsOpen, log>>

\* lines 104-110 when there is no combination: the loops over the members
\* and the times still run and leave their indices at the last member and
\* time; the body of the innermost loop is never entered
EmptyLoops ==
    /\ pc = "emptyloops"
    /\ m_idx' = IF nMembers > 0 THEN nMembers - 1 ELSE m_idx
    /\ t_idx' = IF nMembers > 0 /\ nTimes > 0 THEN nTimes - 1 ELSE t_idx
    /\ pc' = "close"
    /\ InputsUnchanged
    /\ UNCHANGED argLevel
    /\ UNCHANGED <<varsDuration, varsFronto>>
    /\ UNCHANGED <<exc, LEVELS, fs, dsOpen, output_arrays, total_iterations,
                   current_iteration, l_idx, attempts, written_from, log>>

\* the combination after (m_idx, t_idx, l_idx) in the three nested loops
LastSlot ==
    /\ l_idx = Len(LEVELS) - 1
    /\ t_idx = nTimes - 1
    /\ m_idx = nMembers - 1

AdvanceLoop ==
    IF l_idx < Len(LEVELS) - 1
    THEN /\ l_idx' = l_idx + 1
         /\ UNCHANGED <<m_idx, t_idx>>
    ELSE IF t_idx < nTimes - 1
    THEN /\ l_idx' = 0
         /\ t_idx' = t_idx + 1
         /\ UNCHANGED m_idx
    ELSE IF m_idx < nMembers - 1
    THEN /\ l_idx' = 0
         /\ t_idx' = 0
         /\ m_idx' = m_idx + 1
    ELSE UNCHANGED <<m_idx, t_idx, l_idx>>

\* variant: the except clause re-raises
after_slice_error_raise == "raised"

\* the action of the except clause on the run (lines 136-138): continue
after_slice_error == IF LastSlot THEN "close" ELSE "loop"

\* variant: the loop enumerates the list as it was requested
loop_level_requested(i) == argLevel[i + 1]

\* for l_idx, level in enumerate(LEVELS) (line 110): the level at l_idx
loop_level(i) == LEVELS[i + 1]

\* lines 110-138: one iteration of the innermost loop
ProcessSlice ==
    /\ pc = "loop"
    /\ LET slot == <<m_idx, t_idx, l_idx>>
           member == members[m_idx + 1]
           time == times[t_idx + 1]
           level == loop_level(l_idx)
           fields == slice_fields(member, time, level)
       IN  /\ current_iteration' = current_iteration + 1
           /\ attempts' = [attempts EXCEPT ![slot] = @ + 1]
           /\ IF fields.raised
              THEN /\ log' = Append(log, <<"error", member, t_idx + 1, level>>)
                   /\ pc' = after_slice_error
                   /\ UNCHANGED <<output_arrays, written_from>>
              ELSE /\ output_arrays' = store(output_arrays, slot, fields)
                   /\ written_from' =
                        [written_from EXCEPT ![slot] = <<member, time, level>>]
                   /\ pc' = IF LastSlot THEN "close" ELSE "loop"
                   /\ UNCHANGED log
    /\ AdvanceLoop
    /\ InputsUnchanged
    /\ UNCHANGED argLevel
    /\ UNCHANGED <<varsDuration, varsFronto>>
    /\ UNCHANGED <<exc, LEVELS, fs, dsOpen, total_iterations>>

\* lines 140-142
CloseDatasets ==
    /\ pc = "close"
    /\ dsOpen' = {}
    /\ pc' = "stats"
    /\ InputsUnchanged
    /\ UNCHANGED argLevel
    /\ UNCHANGED <<varsDuration, varsFronto>>
    /\ UNCHANGED <<exc, LEVELS, fs, output_arrays, total_iterations,
                   current_iteration, m_idx, t_idx, l_idx, attempts,
                   written_from, log>>

\* lines 146-152
Statistics ==
    /\ pc = "stats"
    /\ log' = log \o stat_lines(output_arrays)
    /\ pc' = "write"
    /\ InputsUnchanged
    /\ UNCHANGED argLevel
    /\ UNCHANGED <<varsDuration, varsFronto>>
    /\ UNCHANGED <<exc, LEVELS, fs, dsOpen, output_arrays, total_iterations,
                   current_iteration, m_idx, t_idx, l_idx, attempts,
                   written_from>>

\* the dataset that lines 156-197 assemble and line 203 writes
output_ds ==
    [member |-> members, Time |-> times, level |-> LEVELS,
     data_vars |-> output_arrays]

\* variant: the except clause only prints
on_write_error_swallowed == "returned"

\* what the except clause of lines 211-213 does with the exception
on_write_error == "raised"

\* what memory and the file system do to lines 155-210: nothing, no memory
\* for the dataset, the file cannot be created, the device runs full
WriteFaults == {"none", "memory", "denied", "full"}

\* the exception raised inside the try of lines 155-210
write_error(fault) ==
    IF fault = "memory" THEN "MemoryError"
    ELSE IF fault = "denied" THEN "PermissionError"
    ELSE IF fault = "full" THEN "OSError"
    ELSE "ok"

WriteErrors == {write_error(fault) : fault \in WriteFaults \ {"none"}}

\* output_ds.to_netcdf(OUTPUT_FILE) (line 203): the file holds the dataset,
\* a dimension of length zero included, unless the file system fails; a
\* full device leaves a partial file
to_netcdf(f, path, ds, fault) ==
    IF fault = "none" THEN [f EXCEPT ![path] = NetcdfFile(ds)]
    ELSE IF fault = "full" THEN [f EXCEPT ![path] = PartialFile]
    ELSE f

\* lines 154-213: assemble and serialize; a failure is printed and re-raised
WriteOutput ==
    /\ pc = "write"
    /\ \E fault \in WriteFaults :
          /\ fs' = to_netcdf(fs, OUTPUT_FILE, output_ds, fault)
          /\ IF write_error(fault) = "ok"
             THEN /\ log' = Append(log, <<"written">>)
                  /\ pc' = "returned"
                  /\ UNCHANGED exc
             ELSE /\ log' = Append(log, <<"write_error">>)
                  /\ pc' = on_write_error
                  /\ exc' = IF on_write_error = "raised"
                            THEN write_error(fault) ELSE exc
    /\ InputsUnchanged
    /\ UNCHANGED argLevel
    /\ UNCHANGED <<varsDuration, varsFronto>>
    /\ UNCHANGED <<LEVELS, dsOpen, output_arrays, total_iterations,
                   current_iteration, m_idx, t_idx, l_idx, attempts,
                   written_from>>

\* line 232
PrintSuccess ==
    /\ pc = "returned"
    /\ log' = Append(log, <<"success">>)
    /\ pc' = "done"
    /\ InputsUnchanged
    /\ UNCHANGED argLevel
    /\ UNCHANGED <<varsDuration, varsFronto>>
    /\ UNCHANGED <<exc, LEVELS, fs, dsOpen, output_arrays, total_iterations,
                   current_iteration, m_idx, t_idx, l_idx, attempts,
                   written_from>>

NextThetaE ==
    \/ ParseArgs
    \/ MakeDirs
    \/ OpenDatasets
    \/ ValidateLevels
    \/ Allocate
    \/ EmptyLoops
    \/ ProcessSlice
    \/ CloseDatasets
    \/ Statistics
    \/ WriteOutput
    \/ PrintSuccess


\* gradient_change before line 148 ran
NoField == [computed |-> FALSE, ntime |-> 0]

\* the other two scripts while this one runs
IdleDuration ==
    /\ dpc = "idle" /\ dexc = [type |-> "none", line |-> 0] /\ df = <<>>
    /\ duration_counts = <<>> /\ table = <<>> /\ boxplot = "absent"

IdleFronto ==
    /\ fpc = "idle" /\ fexc = "none" /\ timeCoord = {}
    /\ gradient_change = NoField /\ frontogenesis_target = "unset"
    /\ figure = "none" /\ image = "absent"

IdleThetaE ==
    /\ pc = "idle" /\ exc = "none" /\ argLevel = <<>> /\ LEVELS = <<>>
    /\ argv = [kind |-> "default", level |-> <<>>]
    /\ levelStatus = [lv \in Levels |-> "absent"]
    /\ nMembers = 0 /\ nTimes = 0
    /\ windLacks = "nothing"
    /\ fs = [p \in Paths |-> Absent]
    /\ fs0 = fs
    /\ dsOpen = {} /\ output_arrays = <<>>
    /\ total_iterations = 0 /\ current_iteration = 0
    /\ m_idx = 0 /\ t_idx = 0 /\ l_idx = 0
    /\ attempts = <<>> /\ written_from = <<>> /\ log = <<>>

Init == InitThetaE /\ IdleDuration /\ IdleFronto

Next == NextThetaE

Spec == Init /\ [][Next]_vars

(* ---------------- ana_duration_hours.py ---------------- *)
\* the duration_hours values of the explored tables
DurationValues == {10, 20, 40}

\* one row of case_analysis_results.csv: duration_hours, or missing (NaN)
Rows == [na : {FALSE}, hours : DurationValues] \cup {[na |-> TRUE, hours |-> 0]}

RECURSIVE SortedSeq(_)
\* the elements of a set of numbers in ascending order (sort_index)
SortedSeq(S) ==
    IF S = {} THEN <<>>
    ELSE LET m == CHOOSE x \in S : \A y \in S : x <= y
         IN  <<m>> \o SortedSeq(S \ {m})

\* whether value_counts keeps a row: dropna=True is the default
counted(row) == ~row.na

\* df['duration_hours'].value_counts().sort_index() (line 50):
\* <<value, count>> per distinct value, ascending
value_counts(rows) ==
    LET vals == {rows[i].hours : i \in {j \in DOMAIN rows : counted(rows[j])}}
        idx == SortedSeq(vals)
    IN  [k \in 1..Len(idx) |->
            <<idx[k],
              Cardinality({j \in DOMAIN rows :
                              counted(rows[j]) /\ rows[j].hours = idx[k]})>>]

\* no exception has been raised
NoException == [type |-> "none", line |-> 0]

\* an uncaught exception raised at a line of the script
Raised(type, line) == [type |-> type, line |-> line]

\* the index of df['duration_hours'].describe() (line 29): a table without
\* rows is read with object columns, whose description has no percentiles
describe_index(rows) ==
    IF rows = <<>> THEN {"count", "unique", "top", "freq"}
    ELSE {"count", "mean", "std", "min", "25%", "50%", "75%", "max"}

\* what a scipy.stats call on the column can do (lines 31, 32, 60): it returns
\* (NaN for too few or missing values); on the empty object column the
\* installed scipy either returns NaN or raises
scipy_outcomes(rows) ==
    IF rows = <<>> THEN {"returns", "raises"} ELSE {"returns"}

InitDuration ==
    /\ dpc = "load"
    /\ df \in UNION {[1..n -> Rows] : n \in 0..MaxRows}
    /\ duration_counts = <<>>
    /\ table = <<>>
    /\ dexc = NoException
    /\ boxplot \in {"absent", "old"}

\* lines 15-44: read the table, describe(), skew and kurtosis; NaN rows make
\* the statistics NaN
DescribeStats ==
    /\ dpc = "load"
    /\ \E outcome \in scipy_outcomes(df) :
          IF outcome = "returns"
          THEN /\ dpc' = "count"
               /\ UNCHANGED dexc
          ELSE /\ dexc' = Raised("ScipyError", 31)
               /\ dpc' = "raised"
    /\ UNCHANGED <<df, duration_counts, table, boxplot>>
    /\ UNCHANGED <<varsThetaE, varsFronto>>

\* line 50
ValueCounts ==
    /\ dpc = "count"
    /\ duration_counts' = value_counts(df)
    /\ dpc' = IF value_counts(df) = <<>> THEN "rest" ELSE "print"
    /\ UNCHANGED <<dexc, df, table, boxplot>>
    /\ UNCHANGED <<varsThetaE, varsFronto>>

\* lines 51-53: one line of the frequency table; the percentage is kept as
\* the exact fraction count * 100 / len(df)
PrintRow ==
    /\ dpc = "print"
    /\ LET item == duration_counts[Len(table) + 1]
       IN  table' = Append(table,
                [duration |-> item[1], count |-> item[2],
                 pct_num |-> item[2] * 100, pct_den |-> Len(df)])
    /\ dpc' = IF Len(table) + 1 = Len(duration_counts) THEN "rest" ELSE "print"
    /\ UNCHANGED <<dexc, df, duration_counts, boxplot>>
    /\ UNCHANGED <<varsThetaE, varsFronto>>

\* lines 55-95: t test, figure, box plot, jitter; NaN rows make the test NaN
TTestAndBoxplot ==
    /\ dpc = "rest"
    /\ \E outcome \in scipy_outcomes(df) :
          IF outcome = "returns"
          THEN /\ dpc' = "colors"
               /\ UNCHANGED dexc
          ELSE /\ dexc' = Raised("ScipyError", 60)
               /\ dpc' = "raised"
    /\ UNCHANGED <<df, duration_counts, table, boxplot>>
    /\ UNCHANGED <<varsThetaE, varsFronto>>

\* sorted(np.unique(durations)) (line 100): the keys of duration_color_map;
\* a NaN is a key of its own
color_keys(rows) == {rows[i] : i \in DOMAIN rows}

\* duration_color_map[d] (line 101): a NaN equals no key, itself included
color_found(rows, d) == ~d.na /\ d \in color_keys(rows)

\* lines 97-101: the colour of every point is looked up by its duration
ColorPoints ==
    /\ dpc = "colors"
    /\ IF \A i \in DOMAIN df : color_found(df, df[i])
       THEN /\ dpc' = "draw"
            /\ UNCHANGED dexc
       ELSE /\ dexc' = Raised("KeyError", 101)
            /\ dpc' = "raised"
    /\ UNCHANGED <<df, duration_counts, table, boxplot>>
    /\ UNCHANGED <<varsThetaE, varsFronto>>

\* lines 103-165: scatter, the statistics text (stats['50%'] at line 115 is
\* the first entry it reads), annotations, savefig
SaveBoxplot ==
    /\ dpc = "draw"
    /\ IF "50%" \in describe_index(df)
       THEN /\ boxplot' = "saved"
            /\ dpc' = "show"
            /\ UNCHANGED dexc
       ELSE /\ dexc' = Raised("KeyError", 115)
            /\ dpc' = "raised"
            /\ UNCHANGED boxplot
    /\ UNCHANGED <<df, duration_counts, table>>
    /\ UNCHANGED <<varsThetaE, varsFronto>>

\* line 167: plt.show() returns when the user closes the window
ShowPlot ==
    /\ dpc = "show"
    /\ dpc' = "breakpoint"
    /\ UNCHANGED <<dexc, df, duration_counts, table, boxplot>>
    /\ UNCHANGED <<varsThetaE, varsFronto>>

\* what the debugger session of line 169 ends with: the user continues, or
\* quits (also at end of input), which raises BdbQuit
DebuggerCommands == {"continue", "quit"}

\* line 169: breakpoint()
Breakpoint ==
    /\ dpc = "breakpoint"
    /\ \E command \in DebuggerCommands :
          IF command = "continue"
          THEN /\ dpc' = "done"
               /\ UNCHANGED dexc
          ELSE /\ dexc' = Raised("BdbQuit", 169)
               /\ dpc' = "raised"
    /\ UNCHANGED <<df, duration_counts, table, boxplot>>
    /\ UNCHANGED <<varsThetaE, varsFronto>>

NextDuration ==
    \/ DescribeStats
    \/ ValueCounts
    \/ PrintRow
    \/ TTestAndBoxplot
    \/ ColorPoints
    \/ SaveBoxplot
    \/ ShowPlot
    \/ Breakpoint

StartDuration == InitDuration /\ IdleThetaE /\ IdleFronto

SpecDuration == StartDuration /\ [][NextDuration]_vars

(* ---------------- frontogenesis_tendency_comparison.py ---------------- *)
\* hours relative to TARGET_TIME that the time coordinate may hold
TimeOffsets == {-2, -1, 0, 1, 2}

\* TARGET_TIME (line 36), time_before and time_after (lines 139-140)
TARGET_TIME == 0
time_before == TARGET_TIME - 1
time_after == TARGET_TIME + 1

\* variant: the time step nearest to t is selected
mask_select_nearest(coord, t) ==
    {CHOOSE x \in coord : \A y \in coord :
        (IF x >= t THEN x - t ELSE t - x) <= (IF y >= t THEN y - t ELSE t - y)}

\* gradient_magnitude[theta.time == t, :, :]: the time steps a boolean mask
\* selects (line 148)
mask_select(coord, t) == {x \in coord : x = t}

\* numpy broadcasting of two lengths of the time axis: equal, or one is 1
broadcast(a, b) == IF a = b THEN a ELSE IF a = 1 THEN b ELSE a

\* variant: sel(..., method='nearest') always finds a time step
sel_time_nearest(coord, t) == "field"

\* frontogenesis_field.sel(time=TARGET_TIME) (line 167): exact label lookup
sel_time(coord, t) == IF t \in coord THEN "field" ELSE "KeyError"

InitFronto ==
    /\ fpc = "fields"
    /\ fexc = "none"
    /\ timeCoord \in (SUBSET TimeOffsets) \ {{}}
    /\ gradient_change = NoField
    /\ frontogenesis_target = "unset"
    /\ figure = "none"
    /\ image \in {"absent", "old"}

\* lines 47-136: load, grid spacing, frontogenesis and gradient magnitude at
\* every time step
ComputeFields ==
    /\ fpc = "fields"
    /\ fpc' = "tendency"
    /\ UNCHANGED <<fexc, timeCoord, gradient_change, frontogenesis_target,
                   figure, image>>
    /\ UNCHANGED <<varsThetaE, varsDuration>>

\* lines 138-159: the difference of the two mask selections, divided by the
\* interval and squeezed; the field keeps a time axis unless it has length 1
GradientChange ==
    /\ fpc = "tendency"
    /\ LET n_after == Cardinality(mask_select(timeCoord, time_after))
           n_before == Cardinality(mask_select(timeCoord, time_before))
       IN  gradient_change' = [computed |-> TRUE,
                                 ntime |-> broadcast(n_after, n_before)]
    /\ fpc' = "select"
    /\ UNCHANGED <<fexc, timeCoord, frontogenesis_target, figure, image>>
    /\ UNCHANGED <<varsThetaE, varsDuration>>

\* lines 164-171
SelectTarget ==
    /\ fpc = "select"
    /\ IF sel_time(timeCoord, TARGET_TIME) = "KeyError"
       THEN /\ fexc' = "KeyError"
            /\ fpc' = "raised"
            /\ UNCHANGED frontogenesis_target
       ELSE /\ frontogenesis_target' = sel_time(timeCoord, TARGET_TIME)
            /\ fpc' = "statistics"
            /\ UNCHANGED fexc
    /\ UNCHANGED <<timeCoord, gradient_change, figure, image>>
    /\ UNCHANGED <<varsThetaE, varsDuration>>

\* lines 173-176: np.nanmin / np.nanmax of a zero-size array raise
FieldStatistics ==
    /\ fpc = "statistics"
    /\ IF gradient_change.ntime = 0
       THEN /\ fexc' = "ValueError"
            /\ fpc' = "raised"
       ELSE /\ fpc' = "plot"
            /\ UNCHANGED fexc
    /\ UNCHANGED <<timeCoord, gradient_change, frontogenesis_target, figure,
                   image>>
    /\ UNCHANGED <<varsThetaE, varsDuration>>

\* lines 178-251: output directory, figure, the two contour maps
Plot ==
    /\ fpc = "plot"
    /\ figure' = "drawn"
    /\ fpc' = "save"
    /\ UNCHANGED <<fexc, timeCoord, gradient_change, frontogenesis_target,
                   image>>
    /\ UNCHANGED <<varsThetaE, varsDuration>>

\* lines 253-260
SaveFig ==
    /\ fpc = "save"
    /\ image' = "new"
    /\ fpc' = "done"
    /\ UNCHANGED <<fexc, timeCoord, gradient_change, frontogenesis_target,
                   figure>>
    /\ UNCHANGED <<varsThetaE, varsDuration>>

NextFronto ==
    \/ ComputeFields
    \/ GradientChange
    \/ SelectTarget
    \/ FieldStatistics
    \/ Plot
    \/ SaveFig

StartFronto == InitFronto /\ IdleThetaE /\ IdleDuration

SpecFronto == StartFronto /\ [][NextFronto]_vars

(***************************************************************************)
(* Properties                                                              *)
(***************************************************************************)
\* positions of the run of calc_WRF_ThetaE_Analysis.py
\* the errors that end a run before an input file is opened
BeforeOpenErrors == {"SystemExit", "FileExistsError", "NotADirectoryError"}

LevelsValidated ==
    /\ pc \notin {"idle", "parse", "main", "open", "validate"}
    /\ ~(pc = "raised" /\ exc \in BeforeOpenErrors \cup {"FileNotFoundError"})
LoopFinished == pc \in {"close", "stats", "write", "returned", "done"}
                \/ (pc = "raised" /\ exc \in WriteErrors)

Logged(kind) == {i \in DOMAIN log : log[i][1] = kind}

\* the per-slice handler printed an error for the combination of this slot
SliceFailed(slot) ==
    <<"error", members[slot[1] + 1], slot[2] + 1, LEVELS[slot[3] + 1]>>
        \in Range(log)

\* C1: once the levels are validated, the effective level list is the
\* requested list restricted to the requested positions whose level the eth
\* input has, in the requested order, and no per-slice error ever names a
\* level the input lacks.
C1_EffectiveLevels ==
    LevelsValidated =>
        /\ \E f \in [1..Len(LEVELS) -> 1..Len(argLevel)] :
              /\ \A i, j \in 1..Len(LEVELS) : i < j => f[i] < f[j]
              /\ \A i \in 1..Len(LEVELS) : LEVELS[i] = argLevel[f[i]]
              /\ {f[i] : i \in 1..Len(LEVELS)} =
                    {j \in 1..Len(argLevel) : levelStatus[argLevel[j]] # "absent"}
        /\ \A i \in Logged("error") : levelStatus[log[i][4]] # "absent"

\* C1 witness: a finished run of the default request in which the middle
\* level was dropped and the two others were kept in the requested order
C1_Witness ==
    /\ pc = "done"
    /\ argv.kind = "default"
    /\ argLevel = DefaultLevels
    /\ levelStatus[argLevel[2]] = "absent"
    /\ LEVELS = <<argLevel[1], argLevel[3]>>
    /\ Logged("error") = {}

\* C2 as stated: after the loop every slot of a combination that completed
\* without error is not the sentinel in any of the six arrays, and every slot
\* of a combination that threw is the sentinel in all six.
C2_Original ==
    LoopFinished =>
        \A slot \in DOMAIN attempts : \A v \in VarNames :
            IF SliceFailed(slot)
            THEN output_arrays[v].data[slot] = "nan"
            ELSE output_arrays[v].data[slot] # "nan"

\* C2 amended: after the loop a slot of a combination that completed without
\* error holds what was computed from its slice, which is the sentinel
\* exactly when the data of the slice is NaN itself, identically in the six
\* arrays; every slot of a combination that threw is the sentinel in all six.
C2_SlotsAfterLoop ==
    LoopFinished =>
        \A slot \in DOMAIN attempts : \A v \in VarNames :
            IF SliceFailed(slot)
            THEN output_arrays[v].data[slot] = "nan"
            ELSE (output_arrays[v].data[slot] = "nan")
                    <=> (levelStatus[LEVELS[slot[3] + 1]] = "nan")

\* C2 witness: after the loop one combination was stored with finite data,
\* one with NaN data, and one failed
C2_Witness ==
    /\ LoopFinished
    /\ \E a, b, c \in DOMAIN attempts :
          /\ ~SliceFailed(a) /\ output_arrays["eth"].data[a] = "val"
          /\ ~SliceFailed(b) /\ levelStatus[LEVELS[b[3] + 1]] = "nan"
          /\ SliceFailed(c)

\* C3: a step of the loop never ends the run, failed or not: it attempts the
\* combination it is at for the first and only time and stays in the loop
\* until every combination was attempted exactly once; then the inputs are
\* closed, the statistics reported and the output serialized.
C3_LoopRunsToCompletion ==
    [][ /\ pc = "loop" =>
              /\ pc' \in {"loop", "close"}
              /\ attempts[<<m_idx, t_idx, l_idx>>] = 0
              /\ attempts'[<<m_idx, t_idx, l_idx>>] = 1
              /\ pc' = "loop" => \E s \in DOMAIN attempts : attempts'[s] = 0
              /\ pc' = "close" => \A s \in DOMAIN attempts : attempts'[s] = 1
        /\ pc = "close" => pc' = "stats" /\ dsOpen' = {}
        /\ pc = "stats" => pc' = "write" /\ Len(log') = Len(log) + Len(VarOrder)
        /\ pc = "write" => Logged("written")' # {} \/ Logged("write_error")' # {}
      ]_vars

\* C3 witness: the output is about to be serialized after a loop in which
\* one combination failed and a later one was stored
C3_Witness ==
    /\ pc = "write"
    /\ \E a, b \in DOMAIN attempts :
          /\ SliceFailed(a) /\ ~SliceFailed(b)
          /\ output_arrays["eth"].data[b] = "val"
          /\ \/ a[1] < b[1]
             \/ a[1] = b[1] /\ a[3] < b[3]

\* C4: a run that validated its levels logged one warning naming the
\* requested levels the input lacks when there is one, and none otherwise;
\* the level coordinate of a written file is the effective level list, which
\* holds the requested levels the input has, and the level dimension of each
\* of the six variables has its length.
C4_WarningAndLevelCoordinate ==
    /\ LevelsValidated =>
          LET requested_missing ==
                  {lv \in Range(argLevel) : levelStatus[lv] = "absent"}
          IN  IF requested_missing = {}
              THEN Logged("warning") = {}
              ELSE /\ Cardinality(Logged("warning")) = 1
                   /\ \A i \in Logged("warning") :
                         Range(log[i][2]) = requested_missing
    /\ fs[OUTPUT_FILE].kind = "netcdf" =>
          /\ fs[OUTPUT_FILE].ds.level = LEVELS
          /\ Range(fs[OUTPUT_FILE].ds.level) =
                {lv \in Range(argLevel) : levelStatus[lv] # "absent"}
          /\ \A v \in VarNames :
                fs[OUTPUT_FILE].ds.data_vars[v].shape[3] = Len(LEVELS)

\* C4 witness: a file was written after a warning about a missing level
C4_Witness ==
    /\ fs[OUTPUT_FILE].kind = "netcdf"
    /\ Logged("warning") # {}
    /\ Len(fs[OUTPUT_FILE].ds.level) >= 1
    /\ Len(fs[OUTPUT_FILE].ds.level) < Len(argLevel)

\* C5: when one of the two input files cannot be opened the run ends with
\* that error before the loop: no array is allocated, no combination is
\* attempted, and the success message is not printed. (A run that ended
\* before it opened a file, in argparse or in os.makedirs, did so for the
\* command line or the output path it was given.)
C5_OpenFailureIsFatal ==
    (pc # "idle" /\ (fs0[EthPath] = Absent \/ fs0[UvPath] = Absent)) =>
        /\ pc \in {"parse", "main", "open", "raised"}
        /\ pc = "raised" =>
              \/ exc = "FileNotFoundError"
              \/ exc = "SystemExit" /\ argv.kind \in {"help", "error"}
              \/ /\ exc \in {"FileExistsError", "NotADirectoryError"}
                 /\ fs0[OUTPUT_DIR] \in {RegularFile, Blocked}
        /\ DOMAIN output_arrays = {}
        /\ DOMAIN attempts = {}
        /\ current_iteration = 0
        /\ Logged("success") = {}

\* C5 witness: the run ended on the wind file, the eth file being open
C5_Witness ==
    /\ pc = "raised"
    /\ exc = "FileNotFoundError"
    /\ fs0[EthPath] # Absent
    /\ fs0[UvPath] = Absent

\* C6: a failure of the assembly or the serialization is logged and ends the
\* run with the exception, and the success message is printed only after
\* the file was written.
C6_SerializationFailureReraised ==
    /\ Logged("write_error") # {} =>
          /\ pc = "raised"
          /\ exc \in WriteErrors
          /\ Logged("success") = {}
          /\ Logged("written") = {}
    /\ Logged("success") # {} =>
          /\ Logged("written") # {}
          /\ fs[OUTPUT_FILE].kind = "netcdf"

\* C6 witness: the run ended on a serialization failure that was logged
C6_Witness ==
    /\ pc = "raised"
    /\ exc \in WriteErrors
    /\ log[Len(log)] = <<"write_error">>

DirectoryEnsured ==
    /\ pc \notin {"idle", "parse", "main"}
    /\ ~(pc = "raised" /\ exc \in BeforeOpenErrors)

RECURSIVE SumField(_, _)
SumField(rows, field) ==
    IF rows = <<>> THEN 0
    ELSE rows[1][field] + SumField(Tail(rows), field)

\* the loop of lines 51-53 has printed the whole frequency table
TablePrinted ==
    /\ dpc \notin {"idle", "load", "count", "print"}
    /\ dpc = "raised" => dexc.line > 53

\* C7 as stated: when the table is printed its counts sum to the number of
\* rows and, for a table with rows, its percentages sum to 100.
C7_Original ==
    TablePrinted =>
        /\ SumField(table, "count") = Len(df)
        /\ Len(df) > 0 => SumField(table, "pct_num") = 100 * Len(df)

\* C8: while the target time is not in the time coordinate the run gets no
\* further than the selection of the target, where it ends with the lookup
\* error; nothing is plotted and no image is written.
C8_MissingTargetTime ==
    (fpc # "idle" /\ TARGET_TIME \notin timeCoord) =>
        /\ fpc \in {"fields", "tendency", "select", "raised"}
        /\ fpc = "raised" => fexc = "KeyError"
        /\ fpc # "raised" => fexc = "none"
        /\ frontogenesis_target = "unset"
        /\ figure = "none"
        /\ image # "new"

\* C8 witness: the run ended with the lookup error of the target time
C8_Witness ==
    /\ fpc = "raised"
    /\ fexc = "KeyError"
    /\ TARGET_TIME \notin timeCoord
    /\ gradient_change.computed

\* the case of C9: the target time is present, a neighbouring hour is not,
\* and the selection for the tendency has been made
C9_Case ==
    /\ TARGET_TIME \in timeCoord
    /\ time_before \notin timeCoord \/ time_after \notin timeCoord
    /\ fpc \notin {"idle", "fields", "tendency"}

\* C9 as stated: the selection fails with a lookup error and no tendency
\* field is produced.
C9_Original ==
    C9_Case => fexc = "KeyError" /\ ~gradient_change.computed

\* C9 amended: the selection by boolean mask raises nothing and substitutes
\* no other time: it selects no time step, the tendency field is produced
\* with an empty time axis, and the run ends with a ValueError when the
\* statistics of the empty field are taken, before any plotting and without
\* an image.
C9_EmptyTendency ==
    C9_Case =>
        /\ gradient_change.computed
        /\ gradient_change.ntime = 0
        /\ fpc \in {"select", "statistics", "raised"}
        /\ fpc = "raised" => fexc = "ValueError"
        /\ fpc # "raised" => fexc = "none"
        /\ figure = "none"
        /\ image # "new"

\* C9 witness: the run ended on the statistics of an empty tendency field
\* although another time step was at hand
C9_Witness ==
    /\ C9_Case
    /\ fpc = "raised"
    /\ fexc = "ValueError"
    /\ time_after \in timeCoord
    /\ time_before \notin timeCoord

\* the arrays exist: the loops are running or have run
ArraysAllocated == pc \in {"emptyloops", "loop"} \/ LoopFinished

\* the loop has already been at the combination of this slot
Visited(slot) ==
    \/ pc # "loop"
    \/ slot[1] < m_idx
    \/ slot[1] = m_idx /\ slot[2] < t_idx
    \/ slot[1] = m_idx /\ slot[2] = t_idx /\ slot[3] < l_idx

\* C11: during and after the loop the six arrays have the shape
\* (n_members, n_times, length of the effective level list), every slot the
\* loop has not yet been at is the sentinel in all six arrays and was never
\* attempted, current_iteration is the number of combinations attempted so
\* far, is at most total_iterations = n_members * n_times * n_levels, and
\* equals it once the loop has ended.
C11_LoopInvariant ==
    ArraysAllocated =>
        /\ \A v \in VarNames :
              /\ output_arrays[v].shape = <<nMembers, nTimes, Len(LEVELS)>>
              /\ DOMAIN output_arrays[v].data =
                    Slots(nMembers, nTimes, Len(LEVELS))
        /\ \A slot \in Slots(nMembers, nTimes, Len(LEVELS)) :
              IF Visited(slot)
              THEN attempts[slot] = 1
              ELSE /\ attempts[slot] = 0
                   /\ \A v \in VarNames : output_arrays[v].data[slot] = "nan"
        /\ current_iteration =
              Cardinality({slot \in Slots(nMembers, nTimes, Len(LEVELS)) :
                              Visited(slot)})
        /\ total_iterations = nMembers * nTimes * Len(LEVELS)
        /\ current_iteration <= total_iterations
        /\ LoopFinished => current_iteration = total_iterations

\* C11 witness: in the middle of the loop, after a failed and a stored
\* combination, with a combination still to come
C11_Witness ==
    /\ pc = "loop"
    /\ current_iteration >= 2
    /\ current_iteration < total_iterations
    /\ \E a, b \in DOMAIN attempts :
          /\ Visited(a) /\ SliceFailed(a)
          /\ Visited(b) /\ output_arrays["eth"].data[b] = "val"

\* a slot into which lines 129-134 stored
Written(slot) == written_from[slot] # <<>>

\* C12: a slot is written only with values read for members[m_idx],
\* times[t_idx] and the level at position l_idx of the effective level
\* list, which is the level the level coordinate of the written file has at
\* that index; a slot that was not written is the sentinel in all six arrays
\* and, once the loop has been at it, has an error line naming that member,
\* time index and level.
C12_SlotMatchesCoordinates ==
    ArraysAllocated =>
        \A slot \in Slots(nMembers, nTimes, Len(LEVELS)) :
            IF Written(slot)
            THEN /\ Visited(slot)
                 /\ written_from[slot] =
                       <<members[slot[1] + 1], times[slot[2] + 1],
                         LEVELS[slot[3] + 1]>>
                 /\ output_arrays["eth"].data[slot] =
                       (IF levelStatus[LEVELS[slot[3] + 1]] = "nan"
                        THEN "nan" ELSE "val")
                 /\ fs[OUTPUT_FILE].kind = "netcdf" =>
                       /\ written_from[slot] =
                             <<fs[OUTPUT_FILE].ds.member[slot[1] + 1],
                               fs[OUTPUT_FILE].ds.Time[slot[2] + 1],
                               fs[OUTPUT_FILE].ds.level[slot[3] + 1]>>
                       /\ fs[OUTPUT_FILE].ds.data_vars = output_arrays
            ELSE /\ \A v \in VarNames : output_arrays[v].data[slot] = "nan"
                 /\ Visited(slot) => SliceFailed(slot)

\* C12 witness: a file was written for a request of three levels whose
\* middle one was dropped; the slot of the second member, second time and
\* second kept level was stored from the third requested level, which the
\* level coordinate has at that index
C12_Witness ==
    /\ fs[OUTPUT_FILE].kind = "netcdf"
    /\ Len(argLevel) = 3
    /\ levelStatus[argLevel[2]] = "absent"
    /\ argLevel[1] # argLevel[3]
    /\ Len(LEVELS) = 2
    /\ <<1, 1, 1>> \in DOMAIN written_from
    /\ Written(<<1, 1, 1>>)
    /\ written_from[<<1, 1, 1>>] = <<members[2], times[2], argLevel[3]>>
    /\ fs[OUTPUT_FILE].ds.level[2] = argLevel[3]
    /\ output_arrays["eth"].data[<<1, 1, 1>>] = "val"

\* the wind file lacks the member, the time or the level of this slot
WindLacksSlot(slot) ==
    \/ levelStatus[LEVELS[slot[3] + 1]] = "nowind"
    \/ windLacks = "member" /\ slot[1] = nMembers - 1
    \/ windLacks = "time" /\ slot[2] = nTimes - 1

\* C13: a requested level that eth.nc has stays in the effective level list
\* although ua,va.nc lacks it, and the arrays have one index per member and
\* time of eth.nc although ua,va.nc lacks one; after the loop every slot
\* whose member, time or level the wind file lacks has its error line and is
\* the sentinel in all six arrays, the eth array included; a written file
\* keeps these members, times and levels in its coordinates.
C13_WindGapsFailPerSlice ==
    /\ LevelsValidated =>
          \A i \in DOMAIN argLevel :
              levelStatus[argLevel[i]] = "nowind" => argLevel[i] \in Range(LEVELS)
    /\ ArraysAllocated =>
          \A v \in VarNames :
              /\ output_arrays[v].shape[1] = nMembers
              /\ output_arrays[v].shape[2] = nTimes
    /\ LoopFinished =>
          \A slot \in Slots(nMembers, nTimes, Len(LEVELS)) :
              WindLacksSlot(slot) =>
                  /\ SliceFailed(slot)
                  /\ \A v \in VarNames : output_arrays[v].data[slot] = "nan"
    /\ fs[OUTPUT_FILE].kind = "netcdf" =>
          /\ Len(fs[OUTPUT_FILE].ds.member) = nMembers
          /\ Len(fs[OUTPUT_FILE].ds.Time) = nTimes
          /\ \A i \in DOMAIN argLevel :
                levelStatus[argLevel[i]] = "nowind" =>
                    argLevel[i] \in Range(fs[OUTPUT_FILE].ds.level)
          /\ \A v \in VarNames :
                fs[OUTPUT_FILE].ds.data_vars[v].shape =
                    <<nMembers, nTimes, Len(fs[OUTPUT_FILE].ds.level)>>

\* C13 witness: a run finished and wrote the file with a level the wind file
\* lacks in the level coordinate; all slices of that level failed, a slice
\* of the member the wind file lacks failed at another level, and a slice
\* of the first member was stored
C13_Witness ==
    /\ pc = "done"
    /\ fs[OUTPUT_FILE].kind = "netcdf"
    /\ windLacks = "member"
    /\ nMembers = 2
    /\ \E a, b, c \in Slots(nMembers, nTimes, Len(LEVELS)) :
          /\ levelStatus[LEVELS[a[3] + 1]] = "nowind"
          /\ SliceFailed(a)
          /\ LEVELS[a[3] + 1] \in Range(fs[OUTPUT_FILE].ds.level)
          /\ b[1] = 0 /\ output_arrays["eth"].data[b] = "val"
          /\ c[1] = 1 /\ c[3] = b[3] /\ SliceFailed(c)

\* both input files were there and none of the requested levels is in eth.nc
NoLevelAvailable ==
    /\ pc # "idle"
    /\ fs0[EthPath] # Absent /\ fs0[UvPath] # Absent
    /\ \A i \in DOMAIN argLevel : levelStatus[argLevel[i]] = "absent"

\* what C14 says of a run, from the validation of the levels on, as far as
\* the run has come
EmptyLevelRun ==
    /\ LEVELS = <<>>
    /\ Cardinality(Logged("warning")) = 1
    /\ pc # "loop"
    /\ current_iteration = 0
    /\ DOMAIN attempts = {}
    /\ Logged("error") = {}
    /\ pc \in {"emptyloops", "close", "stats", "write", "returned", "done",
              "raised"} =>
          /\ total_iterations = 0
          /\ \A v \in VarNames : output_arrays[v].shape[3] = 0
    /\ pc \in {"allocate", "emptyloops", "close"} => dsOpen = {"eth", "uv"}
    /\ pc \in {"stats", "write", "returned", "done", "raised"} => dsOpen = {}
    /\ pc \in {"write", "returned", "done", "raised"} =>
          /\ Logged("valid") = {}
          /\ \A v \in VarNames : <<"novalid", v>> \in Range(log)
    /\ pc \in {"returned", "done"} =>
          /\ fs[OUTPUT_FILE].kind = "netcdf"
          /\ fs[OUTPUT_FILE].ds.level = <<>>
          /\ Cardinality(Logged("written")) = 1

====
